---- MODULE Spec2Model ----
(***************************************************************************)
(* SPARK MCP tools (src/src/tools/02_spark_example.py).                    *)
(*                                                                         *)
(* Three tool handlers, create_spark_object, spark_vc and spark_test,      *)
(* each of the shape                                                       *)
(*     allocate a temp path -> run Rscript and wait -> read the auxiliary  *)
(*     table -> unlink it -> build the result dict.                        *)
(* The handlers share nothing but the filesystem.  A call is modelled as   *)
(* a small process whose steps interleave with the steps of other calls.   *)
(*                                                                         *)
(* A path is a triple <<directory, name, suffix>>; str.replace is applied  *)
(* component by component and the command line carries the joined string.  *)
(* p-values are thousandths (0.05 is 50), a missing value is NaN.          *)
(***************************************************************************)
EXTENDS Integers, Sequences, FiniteSets, TLC

VARIABLES
    fs,          \* filesystem: path -> content
    pc,          \* per call: position in the handler
    args,        \* per call: the tool and its parameters
    output,      \* per call: output_rds / output_csv (f.name)
    cmd,         \* per call: the argv handed to subprocess.run
    engine,      \* per call: state of the Rscript child process
    returncode,  \* per call: exit status of the child
    df,          \* per call: summary_df / results_df
    result,      \* per call: the dict returned to the caller
    trace,       \* per call: the filesystem and process steps taken so far
    results_df,  \* a result table as parsed by pd.read_csv (table study)
    test_out,    \* the dict spark_test builds from results_df (table study)
    vc_in,       \* parameters of one spark_vc call (command-line study)
    vc_cmd       \* the argv spark_vc builds from vc_in (command-line study)

vars == <<fs, pc, args, output, cmd, engine, returncode, df, result, trace,
          results_df, test_out, vc_in, vc_cmd>>

callVars == <<fs, pc, args, output, cmd, engine, returncode, df, result, trace>>
tableVars == <<results_df, test_out>>
cmdVars == <<vc_in, vc_cmd>>

----------------------------------------------------------------------------
(* Bounds *)

\* number of tool calls that can be issued
MaxCalls == 2
\* number of distinct random names tempfile can draw
MaxNames == 2
\* largest result table the engine writes in the table study
MaxRows == 11
\* number of rows of such a table without an adjusted p-value
MaxMissing == 1

Calls == 1 .. MaxCalls

----------------------------------------------------------------------------
(* Paths and the filesystem *)

NamePool == <<"tmpk3_x9a2q", "tmpw8hz_r1c", "tmp0dq7mmvb", "tmpz_5e2k9u", "tmpa1b2c3d4">>
Names == {NamePool[i] : i \in 1 .. MaxNames}
TmpDir == "/tmp/"

CountsCsv == <<"/data/", "counts", ".csv">>
LocationCsv == <<"/data/", "location", ".csv">>
CovariatesCsv == <<"/data/", "covariates", ".csv">>
EmptyCovariatesCsv == <<"/data/", "empty", ".csv">>
CallerObjectRds == <<"/data/", "spark", ".rds">>
CallerFittedRds == <<"/data/", "fitted", ".rds">>

CallerFiles == {CountsCsv, LocationCsv, CovariatesCsv, EmptyCovariatesCsv,
                CallerObjectRds, CallerFittedRds}

TempPaths == {<<TmpDir, n, s>> : n \in Names, s \in {".rds", ".csv", "_summary.csv"}}
AllPaths == CallerFiles \cup TempPaths

NoPath == <<>>

\* the string form of a path, as it appears in argv and in the result
PathStr(p) == IF p = NoPath THEN "" ELSE p[1] \o p[2] \o p[3]

\* str.replace(old, new): every occurrence is replaced
Replace(p, old, new) == [i \in DOMAIN p |-> IF p[i] = old THEN new ELSE p[i]]

Absent == [kind |-> "absent"]
EmptyFile == [kind |-> "empty"]
Blob(tool, c) == [kind |-> "blob", tool |-> tool, by |-> c]
CallerBlob == [kind |-> "blob", tool |-> "caller", by |-> 0]
Garbage == [kind |-> "garbage"]
CsvFile(cols, rows) == [kind |-> "csv", cols |-> cols, rows |-> rows]

Exists(p) == p \in DOMAIN fs /\ fs[p].kind # "absent"

----------------------------------------------------------------------------
(* Python conversions used to build argv *)

Digits == <<"0", "1", "2", "3", "4", "5", "6", "7", "8", "9">>

RECURSIVE NatStr(_)
NatStr(n) == IF n < 10 THEN Digits[n + 1] ELSE NatStr(n \div 10) \o Digits[(n % 10) + 1]

\* str(int)
IntStr(n) == IF n < 0 THEN "-" \o NatStr(0 - n) ELSE NatStr(n)

\* str(bool)
BoolStr(b) == IF b THEN "True" ELSE "False"

\* str.upper on the two strings str(bool) yields
Upper(s) == IF s = "True" THEN "TRUE" ELSE IF s = "False" THEN "FALSE" ELSE s

\* str(float) for a fraction given in tenths: 1 -> "0.1", 10 -> "1.0"
FloatStr(tenths) == NatStr(tenths \div 10) \o "." \o NatStr(tenths % 10)

R_SCRIPT_DIR == "r_scripts/02_spark_example/"

\* Optional[str]: <<>> is None, <<s>> is the string s
None == <<>>
Some(s) == <<s>>
\* truthiness of an Optional[str]: None and "" are falsy
Truthy(o) == o # None /\ o[1] # ""

----------------------------------------------------------------------------
(* The argv of each tool *)

\* variant: the seed handed to the engine is taken from the temp path, not
\* from the caller
CmdCreate_PathSeed(counts_csv, location_csv, percentage, min_total_counts, seed, output_rds) ==
    << "Rscript", R_SCRIPT_DIR \o "create_spark_object.R",
       "--counts", counts_csv,
       "--location", location_csv,
       "--percentage", FloatStr(percentage),
       "--min_total_counts", IntStr(min_total_counts),
       "--seed", IntStr(CHOOSE i \in DOMAIN NamePool :
                            output_rds = PathStr(<<TmpDir, NamePool[i], ".rds">>)),
       "--output", output_rds >>

\* create_spark_object, lines 48-56
CmdCreate(counts_csv, location_csv, percentage, min_total_counts, seed, output_rds) ==
    << "Rscript", R_SCRIPT_DIR \o "create_spark_object.R",
       "--counts", counts_csv,
       "--location", location_csv,
       "--percentage", FloatStr(percentage),
       "--min_total_counts", IntStr(min_total_counts),
       "--seed", IntStr(seed),
       "--output", output_rds >>

\* variant: --covariates is always passed, with an empty value when absent
CmdVc_Placeholder(spark_object_rds, covariates_csv, num_core, verbose, seed, output_rds) ==
    << "Rscript", R_SCRIPT_DIR \o "spark_vc.R",
       "--spark_object", spark_object_rds,
       "--num_core", IntStr(num_core),
       "--verbose", Upper(BoolStr(verbose)),
       "--seed", IntStr(seed),
       "--output", output_rds,
       "--covariates", IF covariates_csv = None THEN "" ELSE covariates_csv[1] >>

\* spark_vc, lines 99-109
CmdVc(spark_object_rds, covariates_csv, num_core, verbose, seed, output_rds) ==
    << "Rscript", R_SCRIPT_DIR \o "spark_vc.R",
       "--spark_object", spark_object_rds,
       "--num_core", IntStr(num_core),
       "--verbose", Upper(BoolStr(verbose)),
       "--seed", IntStr(seed),
       "--output", output_rds >>
    \o (IF Truthy(covariates_csv) THEN <<"--covariates", covariates_csv[1]>> ELSE <<>>)

\* spark_test, lines 149-156
CmdTest(fitted_spark_object_rds, check_positive, verbose, seed, output_csv) ==
    << "Rscript", R_SCRIPT_DIR \o "spark_test.R",
       "--spark_object", fitted_spark_object_rds,
       "--check_positive", Upper(BoolStr(check_positive)),
       "--verbose", Upper(BoolStr(verbose)),
       "--seed", IntStr(seed),
       "--output", output_csv >>

\* the argv of a call
CmdOf(a, out) ==
    CASE a.tool = "create" ->
            CmdCreate(PathStr(a.counts_csv), PathStr(a.location_csv), a.percentage,
                      a.min_total_counts, a.seed, PathStr(out))
      [] a.tool = "vc" ->
            CmdVc(PathStr(a.spark_object_rds), a.covariates_csv, a.num_core,
                  a.verbose, a.seed, PathStr(out))
      [] a.tool = "test" ->
            CmdTest(PathStr(a.fitted_spark_object_rds), a.check_positive,
                    a.verbose, a.seed, PathStr(out))

\* variant: subprocess.run without check=True
CheckRaises_Unchecked(rc) == FALSE

\* subprocess.run(..., check=True) raises CalledProcessError on a non-zero exit
CheckRaises(rc) == rc # 0

----------------------------------------------------------------------------
(* pandas *)

\* adjusted_pvalue of a row that has none
NaN == -1
\* 0.05 in thousandths
Alpha == 50
\* rows kept in results_preview
PreviewRows == 10

\* pd.read_csv raises on a missing, empty or unparsable file
ReadCsvRaises(content) == content.kind # "csv"
DataFrame(content) == [cols |-> content.cols, rows |-> content.rows]
NoFrame == [cols |-> {}, rows |-> <<>>]

\* a < b on floats: every comparison with NaN is False
Lt(a, b) == a # NaN /\ b # NaN /\ a < b

\* variant: the comparison is not strict
CountSignificant_Le(rows) ==
    Cardinality({i \in DOMAIN rows : rows[i]["adjusted_pvalue"] # NaN
                                       /\ rows[i]["adjusted_pvalue"] <= Alpha})

\* (results_df["adjusted_pvalue"] < 0.05).sum()
CountSignificant(rows) ==
    Cardinality({i \in DOMAIN rows : Lt(rows[i]["adjusted_pvalue"], Alpha)})

\* row i comes before row j in nsmallest's order: ascending, NaN last, ties in
\* table order (keep="first")
Before(rows, i, j) ==
    LET a == rows[i]["adjusted_pvalue"]
        b == rows[j]["adjusted_pvalue"]
    IN  \/ Lt(a, b)
        \/ a # NaN /\ b = NaN
        \/ a = b /\ i < j

\* variant: the first n rows in table order (head)
NSmallest_Head(n, rows) ==
    [k \in 1 .. (IF n < Len(rows) THEN n ELSE Len(rows)) |-> rows[k]]

\* DataFrame.nsmallest(n, "adjusted_pvalue")
NSmallest(n, rows) ==
    LET len == Len(rows)
        pos == [i \in 1 .. len |-> 1 + Cardinality({j \in 1 .. len : Before(rows, j, i)})]
        at(k) == CHOOSE i \in 1 .. len : pos[i] = k
        keep == IF n < len THEN n ELSE len
    IN  [k \in 1 .. keep |-> rows[at(k)]]

\* frame[[c1, c2, ...]].to_dict(orient="records")
Records(rows, columns) == [k \in DOMAIN rows |-> [c \in columns |-> rows[k][c]]]

PreviewColumns == {"gene", "combined_pvalue", "adjusted_pvalue"}

----------------------------------------------------------------------------
(* Result dicts *)

NoResult == [kind |-> "none"]

\* create_spark_object, lines 62-69; raises when a column or row 0 is missing
CreateRaises(d) == ~({"n_genes", "n_spots", "total_counts"} \subseteq d.cols) \/ Len(d.rows) = 0
CreateResult(d, output_rds) ==
    [kind |-> "create",
     spark_object_path |-> PathStr(output_rds),
     n_genes |-> d.rows[1]["n_genes"],
     n_spots |-> d.rows[1]["n_spots"],
     total_counts |-> d.rows[1]["total_counts"]]

\* spark_vc, lines 117-123
VcRaises(d) == ~({"n_genes_fitted", "status"} \subseteq d.cols) \/ Len(d.rows) = 0
VcResult(d, output_rds) ==
    [kind |-> "vc",
     fitted_spark_object_path |-> PathStr(output_rds),
     n_genes_fitted |-> d.rows[1]["n_genes_fitted"],
     status |-> d.rows[1]["status"]]

\* spark_test, lines 162-174
TestRaises(d) == ~(PreviewColumns \subseteq d.cols)
TestResult(d, tested_spark_rds) ==
    [kind |-> "test",
     tested_spark_object_path |-> PathStr(tested_spark_rds),
     n_genes_tested |-> Len(d.rows),
     n_significant_genes |-> CountSignificant(d.rows),
     results_preview |-> Records(NSmallest(PreviewRows, d.rows), PreviewColumns)]

\* the auxiliary table a call reads and unlinks
\* (summary_csv, lines 58 and 113; output_csv, line 158)
AuxPath(tool, out) ==
    IF tool = "test" THEN out ELSE Replace(out, ".rds", "_summary.csv")

\* the handle a call returns (output_rds; tested_spark_rds, line 159)
HandlePath(tool, out) ==
    IF tool = "test" THEN Replace(out, ".csv", ".rds") ELSE out

\* suffix given to NamedTemporaryFile, lines 45, 96, 146
Suffix(tool) == IF tool = "test" THEN ".csv" ELSE ".rds"

ResultRaises(tool, d) ==
    CASE tool = "create" -> CreateRaises(d)
      [] tool = "vc" -> VcRaises(d)
      [] tool = "test" -> TestRaises(d)

ResultOf(tool, d, out) ==
    CASE tool = "create" -> CreateResult(d, out)
      [] tool = "vc" -> VcResult(d, out)
      [] tool = "test" -> TestResult(d, HandlePath(tool, out))

----------------------------------------------------------------------------
(* The external engine (Rscript).  It writes its primary artifact and an   *)
(* auxiliary table next to it; what it writes depends on its arguments     *)
(* other than --output.                                                    *)

ArgValue(argv, flag) == argv[(CHOOSE i \in DOMAIN argv : argv[i] = flag) + 1]
ParseNat(s) == CHOOSE n \in 0 .. 99 : NatStr(n) = s

\* the table a successful run writes
EngineTable(tool, argv) ==
    LET seed == ParseNat(ArgValue(argv, "--seed"))
    IN  CASE tool = "create" ->
               CsvFile({"n_genes", "n_spots", "total_counts"},
                       << [n_genes |-> 90 + (seed % 10), n_spots |-> 50,
                           total_counts |-> 1000 + seed] >>)
          [] tool = "vc" ->
               CsvFile({"n_genes_fitted", "status"},
                       << [n_genes_fitted |-> 80 + (seed % 10), status |-> "success"] >>)
          [] tool = "test" ->
               CsvFile(PreviewColumns \cup {"n_kernels"},
                       << [gene |-> 1, combined_pvalue |-> 40, adjusted_pvalue |-> 50, n_kernels |-> 10],
                          [gene |-> 2, combined_pvalue |-> 3, adjusted_pvalue |-> 40 + (seed % 10), n_kernels |-> 10],
                          [gene |-> 3, combined_pvalue |-> 900, adjusted_pvalue |-> NaN, n_kernels |-> 10] >>)

\* a table with a column missing
TruncatedTable(tool, argv) ==
    LET t == EngineTable(tool, argv)
        drop == CASE tool = "create" -> "total_counts"
                  [] tool = "vc" -> "status"
                  [] tool = "test" -> "adjusted_pvalue"
        keep == t.cols \ {drop}
    IN  CsvFile(keep, [k \in DOMAIN t.rows |-> [c \in keep |-> t.rows[k][c]]])

\* what a run can leave behind: exit status, whether the primary artifact was
\* written, and the state of the auxiliary table
EngineOutcomes ==
    {[rc |-> 0, primary |-> TRUE, aux |-> a] : a \in {"good", "garbage", "truncated", "none"}}
    \cup {[rc |-> 1, primary |-> TRUE, aux |-> "good"]}

AuxContent(o, tool, argv, old) ==
    CASE o.aux = "good" -> EngineTable(tool, argv)
      [] o.aux = "truncated" -> TruncatedTable(tool, argv)
      [] o.aux = "garbage" -> Garbage
      [] o.aux = "none" -> old

\* the paths the engine writes, from its --output argument
EnginePrimary(tool, out) == IF tool = "test" THEN Replace(out, ".csv", ".rds") ELSE out
EngineAux(tool, out) == IF tool = "test" THEN out ELSE Replace(out, ".rds", "_summary.csv")

----------------------------------------------------------------------------
(* Calls *)

\* seed: int = 42
DefaultSeed == 42
Seeds == {DefaultSeed, 7}

NoCall == [tool |-> "none"]

Returned(tool) == {output[d] : d \in {e \in Calls : pc[e] = "done" /\ args[e].tool = tool}}

\* the parameters a caller passes in the current state: its own files and the
\* handles returned by earlier calls; the seed is varied for create_spark_object,
\* the other parameters are the defaults of the signatures
CallArgs ==
    {[tool |-> "create", counts_csv |-> CountsCsv, location_csv |-> LocationCsv,
      percentage |-> 1, min_total_counts |-> 10, seed |-> s] : s \in Seeds}
    \cup {[tool |-> "vc", spark_object_rds |-> h, covariates_csv |-> None,
           num_core |-> 1, verbose |-> FALSE, seed |-> s] :
              h \in {CallerObjectRds} \cup Returned("create"), s \in {DefaultSeed}}
    \cup {[tool |-> "test", fitted_spark_object_rds |-> h, check_positive |-> TRUE,
           verbose |-> FALSE, seed |-> s] :
              h \in {CallerFittedRds} \cup Returned("vc"), s \in {DefaultSeed}}

Step(op, path) == [op |-> op, path |-> path]

\* tempfile.NamedTemporaryFile(suffix=..., delete=False): a random name whose
\* path does not exist is drawn and the file is created empty.  Names that no
\* call has drawn yet are interchangeable, so of those only the first is drawn.
DrawnNames == {output[d][2] : d \in {e \in Calls : output[e] # NoPath}}
FirstFresh ==
    LET fresh == {i \in 1 .. MaxNames : NamePool[i] \notin DrawnNames}
    IN  IF fresh = {} THEN {} ELSE {NamePool[CHOOSE i \in fresh : \A j \in fresh : i <= j]}
FreeNames(suffix) == {n \in DrawnNames \cup FirstFresh : ~Exists(<<TmpDir, n, suffix>>)}

\* a call arrives and allocates its temp file; calls are numbered by arrival
Alloc(c) ==
    /\ pc[c] = "idle"
    /\ IF c = 1 THEN TRUE ELSE pc[c - 1] # "idle"
    /\ \E a \in CallArgs : \E n \in FreeNames(Suffix(a.tool)) :
         LET p == <<TmpDir, n, Suffix(a.tool)>>
         IN  /\ args' = [args EXCEPT ![c] = a]
             /\ fs' = [fs EXCEPT ![p] = EmptyFile]
             /\ output' = [output EXCEPT ![c] = p]
             /\ trace' = [trace EXCEPT ![c] = Append(@, Step("alloc", p))]
             /\ pc' = [pc EXCEPT ![c] = "spawn"]
    /\ UNCHANGED <<cmd, engine, returncode, df, result>>
    /\ UNCHANGED <<tableVars, cmdVars>>

\* variant: the child is started and not waited for (Popen)
AfterSpawn_NoWait == "read"

\* subprocess.run blocks: the handler waits for the child it started
AfterSpawn == "wait"

\* subprocess.run starts the child, or raises when Rscript cannot be started
Spawn(c) ==
    /\ pc[c] = "spawn"
    /\ cmd' = [cmd EXCEPT ![c] = CmdOf(args[c], output[c])]
    /\ trace' = [trace EXCEPT ![c] = Append(@, Step("spawn", NoPath))]
    /\ \/ /\ engine' = [engine EXCEPT ![c] = "running"]
          /\ pc' = [pc EXCEPT ![c] = AfterSpawn]
       \/ /\ engine' = [engine EXCEPT ![c] = "nostart"]
          /\ pc' = [pc EXCEPT ![c] = "failed"]
    /\ UNCHANGED <<fs, args, output, returncode, df, result>>
    /\ UNCHANGED <<tableVars, cmdVars>>

\* the child exits; subprocess.run returns, or raises when check=True fails
EngineExit(c) ==
    /\ engine[c] = "running"
    /\ \E o \in EngineOutcomes :
         LET tool == args[c].tool
             prim == EnginePrimary(tool, output[c])
             aux == EngineAux(tool, output[c])
             written == (IF o.primary THEN <<Step("engine_write", prim)>> ELSE <<>>)
                        \o (IF o.aux # "none" THEN <<Step("engine_write", aux)>> ELSE <<>>)
         IN  /\ fs' = [p \in DOMAIN fs |->
                         IF p = aux THEN AuxContent(o, tool, cmd[c], fs[p])
                         ELSE IF p = prim /\ o.primary THEN Blob(tool, c)
                         ELSE fs[p]]
             /\ returncode' = [returncode EXCEPT ![c] = o.rc]
             /\ trace' = [trace EXCEPT ![c] = (@ \o written) \o <<Step("exit", NoPath)>>]
             /\ pc' = [pc EXCEPT ![c] =
                         IF pc[c] # "wait" THEN pc[c]
                         ELSE IF CheckRaises(o.rc) THEN "failed" ELSE "read"]
    /\ engine' = [engine EXCEPT ![c] = "exited"]
    /\ UNCHANGED <<args, output, cmd, df, result>>
    /\ UNCHANGED <<tableVars, cmdVars>>

\* pd.read_csv(summary_csv) / pd.read_csv(output_csv)
ReadAux(c) ==
    /\ pc[c] = "read"
    /\ LET p == AuxPath(args[c].tool, output[c])
       IN  IF ReadCsvRaises(fs[p])
           THEN /\ pc' = [pc EXCEPT ![c] = "failed"]
                /\ trace' = [trace EXCEPT ![c] = Append(@, Step("read_error", p))]
                /\ UNCHANGED df
           ELSE /\ df' = [df EXCEPT ![c] = DataFrame(fs[p])]
                /\ trace' = [trace EXCEPT ![c] = Append(@, Step("read", p))]
                /\ pc' = [pc EXCEPT ![c] = "unlink"]
    /\ UNCHANGED <<fs, args, output, cmd, engine, returncode, result>>
    /\ UNCHANGED <<tableVars, cmdVars>>

\* Path(summary_csv).unlink() / Path(output_csv).unlink()
Unlink(c) ==
    /\ pc[c] = "unlink"
    /\ LET p == AuxPath(args[c].tool, output[c])
       IN  IF Exists(p)
           THEN /\ fs' = [fs EXCEPT ![p] = Absent]
                /\ trace' = [trace EXCEPT ![c] = Append(@, Step("unlink", p))]
                /\ pc' = [pc EXCEPT ![c] = "build"]
           ELSE /\ pc' = [pc EXCEPT ![c] = "failed"]
                /\ UNCHANGED <<fs, trace>>
    /\ UNCHANGED <<args, output, cmd, engine, returncode, df, result>>
    /\ UNCHANGED <<tableVars, cmdVars>>

\* the return statement: the dict is built and handed to the caller
Return(c) ==
    /\ pc[c] = "build"
    /\ IF ResultRaises(args[c].tool, df[c])
       THEN /\ pc' = [pc EXCEPT ![c] = "failed"]
            /\ UNCHANGED <<result, trace>>
       ELSE /\ result' = [result EXCEPT ![c] = ResultOf(args[c].tool, df[c], output[c])]
            /\ trace' = [trace EXCEPT ![c] = Append(@, Step("return", NoPath))]
            /\ pc' = [pc EXCEPT ![c] = "done"]
    /\ UNCHANGED <<fs, args, output, cmd, engine, returncode, df>>
    /\ UNCHANGED <<tableVars, cmdVars>>

InitCalls ==
    /\ fs = [p \in AllPaths |->
               IF p = EmptyCovariatesCsv THEN EmptyFile
               ELSE IF p \in CallerFiles THEN CallerBlob ELSE Absent]
    /\ pc = [c \in Calls |-> "idle"]
    /\ args = [c \in Calls |-> NoCall]
    /\ output = [c \in Calls |-> NoPath]
    /\ cmd = [c \in Calls |-> <<>>]
    /\ engine = [c \in Calls |-> "none"]
    /\ returncode = [c \in Calls |-> 0 - 1]
    /\ df = [c \in Calls |-> NoFrame]
    /\ result = [c \in Calls |-> NoResult]
    /\ trace = [c \in Calls |-> <<>>]

InitTable ==
    /\ results_df = [cols |-> PreviewColumns \cup {"n_kernels"}, rows |-> <<>>]
    /\ test_out = NoResult

InitCmd ==
    /\ vc_in = [spark_object_rds |-> CallerObjectRds, covariates_csv |-> None,
                num_core |-> 1, verbose |-> FALSE, seed |-> 42, output_rds |-> NoPath]
    /\ vc_cmd = <<>>

Init == InitCalls /\ InitTable /\ InitCmd

Next ==
    \E c \in Calls :
        \/ Alloc(c)
        \/ Spawn(c)
        \/ EngineExit(c)
        \/ ReadAux(c)
        \/ Unlink(c)
        \/ Return(c)

Spec == Init /\ [][Next]_vars

----------------------------------------------------------------------------
(* Table study: spark_test's summary of one parsed result table *)

\* adjusted p-values the engine writes: just below the threshold, exactly the
\* threshold, or missing (in at most MaxMissing rows)
AdjustedValues(rows) ==
    {Alpha - 1, Alpha}
    \cup (IF Cardinality({i \in DOMAIN rows : rows[i]["adjusted_pvalue"] = NaN}) < MaxMissing
          THEN {NaN} ELSE {})

\* the engine writes one more gene to the result table
EngineAppendRow ==
    /\ test_out = NoResult
    /\ Len(results_df.rows) < MaxRows
    /\ \E v \in AdjustedValues(results_df.rows) :
         LET g == Len(results_df.rows) + 1
             row == [gene |-> g, combined_pvalue |-> (g * 7) % 100,
                     adjusted_pvalue |-> v, n_kernels |-> 10]
         IN  results_df' = [results_df EXCEPT !.rows = Append(@, row)]
    /\ UNCHANGED test_out
    /\ UNCHANGED <<callVars, cmdVars>>

\* spark_test, lines 158-174, on the table read
Summarise ==
    /\ test_out = NoResult
    /\ ~TestRaises(results_df)
    /\ test_out' = TestResult(results_df, <<TmpDir, NamePool[1], ".rds">>)
    /\ UNCHANGED results_df
    /\ UNCHANGED <<callVars, cmdVars>>

NextTable == EngineAppendRow \/ Summarise

SpecTable == Init /\ [][NextTable]_vars

----------------------------------------------------------------------------
(* Command-line study: the argv of one spark_vc call *)

VcInputs ==
    [spark_object_rds : {CallerObjectRds},
     covariates_csv : {None, Some(""), Some(PathStr(CovariatesCsv)),
                       Some(PathStr(EmptyCovariatesCsv))},
     num_core : {1, 8, 16},
     verbose : BOOLEAN,
     seed : {DefaultSeed, 7, 0 - 3},
     output_rds : {<<TmpDir, NamePool[1], ".rds">>, <<TmpDir, NamePool[2], ".rds">>}]

\* a caller chooses the parameters of the call
ChooseVcInput ==
    /\ vc_cmd = <<>>
    /\ vc_in.output_rds = NoPath
    /\ vc_in' \in VcInputs
    /\ UNCHANGED vc_cmd
    /\ UNCHANGED <<callVars, tableVars>>

\* spark_vc, lines 99-109
BuildVcCmd ==
    /\ vc_cmd = <<>>
    /\ vc_in.output_rds # NoPath
    /\ vc_cmd' = CmdVc(PathStr(vc_in.spark_object_rds), vc_in.covariates_csv,
                       vc_in.num_core, vc_in.verbose, vc_in.seed,
                       PathStr(vc_in.output_rds))
    /\ UNCHANGED vc_in
    /\ UNCHANGED <<callVars, tableVars>>

NextCmd == ChooseVcInput \/ BuildVcCmd

SpecCmd == Init /\ [][NextCmd]_vars

----------------------------------------------------------------------------
(* Vocabulary of the properties *)

Finished(c) == pc[c] \in {"done", "failed"}
Allocated(c) == output[c] # NoPath
StepsOf(c, op) == {i \in DOMAIN trace[c] : trace[c][i].op = op}
Aux(c) == AuxPath(args[c].tool, output[c])
Handle(c) == HandlePath(args[c].tool, output[c])

ResultKeys(tool) ==
    CASE tool = "create" -> {"kind", "spark_object_path", "n_genes", "n_spots", "total_counts"}
      [] tool = "vc" -> {"kind", "fitted_spark_object_path", "n_genes_fitted", "status"}
      [] tool = "test" -> {"kind", "tested_spark_object_path", "n_genes_tested",
                           "n_significant_genes", "results_preview"}

HandleKeys == {"spark_object_path", "fitted_spark_object_path", "tested_spark_object_path"}

\* C1: a result is returned only after the engine exited with status zero and the
\* auxiliary table was read and parsed; a call that fails returns nothing, not
\* even part of a result; the auxiliary table is never read after a non-zero exit.
C1_AllOrNothing ==
    \A c \in Calls :
        /\ result[c] # NoResult =>
              /\ pc[c] = "done"
              /\ engine[c] = "exited" /\ returncode[c] = 0
              /\ StepsOf(c, "read") # {}
              /\ DOMAIN result[c] = ResultKeys(args[c].tool)
        /\ pc[c] = "done" => result[c] # NoResult
        /\ pc[c] = "failed" => result[c] = NoResult
        /\ engine[c] = "nostart" => StepsOf(c, "read") \cup StepsOf(c, "read_error") = {}
        /\ (engine[c] = "exited" /\ returncode[c] # 0) =>
              /\ StepsOf(c, "read") \cup StepsOf(c, "read_error") = {}
              /\ result[c] = NoResult

\* a call failed on a non-zero exit although the engine left a well-formed table
C1_Witness ==
    \E c \in Calls :
        /\ pc[c] = "failed" /\ returncode[c] = 1
        /\ fs[Aux(c)].kind = "csv"
        /\ \E d \in Calls : pc[d] = "done"

\* C2: once a call has returned control, by a result or by a failure, the
\* temporary summary or result table of that call is absent from the filesystem.
C2_AuxGoneAfterCall ==
    \A c \in Calls : (Finished(c) /\ Allocated(c)) => ~Exists(Aux(c))

\* C3: no file a call passes as --output, derives from it, reads, deletes or
\* returns as a handle is written, read or deleted by a different call.
C3_CallsIndependent ==
    \A c, d \in Calls :
        (c # d /\ Allocated(c) /\ Allocated(d)) =>
            LET mine == {output[c], Aux(c), Handle(c)}
                theirs == {trace[d][i].path :
                             i \in StepsOf(d, "alloc") \cup StepsOf(d, "engine_write")
                                   \cup StepsOf(d, "read") \cup StepsOf(d, "unlink")}
            IN  mine \cap theirs = {}

\* C7: the engine is started once per call, never again after a failure, and
\* the handler does nothing while the child runs: reading, unlinking and
\* returning all come after the child's exit.
C7_OnceAndBlocking ==
    \A c \in Calls :
        /\ Cardinality(StepsOf(c, "spawn")) <= 1
        /\ Cardinality(StepsOf(c, "exit")) <= 1
        /\ pc[c] = "done" => (Cardinality(StepsOf(c, "spawn")) = 1 /\ engine[c] = "exited")
        /\ engine[c] = "running" => pc[c] = "wait"
        /\ \A i \in DOMAIN trace[c] :
              trace[c][i].op \in {"read", "read_error", "unlink", "return"} =>
                  \E j \in StepsOf(c, "exit") : \E k \in StepsOf(c, "spawn") : k < j /\ j < i

\* one call returned a result and another failed after its engine had run
C7_Witness ==
    \E c, d \in Calls :
        /\ pc[c] = "done"
        /\ pc[d] = "failed" /\ engine[d] = "exited" /\ returncode[d] = 1

\* what two results may not differ in: everything but the handle path
Counts(r) == [k \in DOMAIN r \ HandleKeys |-> r[k]]

\* C8: two calls of the same tool with the same parameters and seed return the
\* same counts, whatever temp paths they were given.
C8_SeedDeterminism ==
    \A c, d \in Calls :
        (pc[c] = "done" /\ pc[d] = "done" /\ args[c] = args[d]) =>
            Counts(result[c]) = Counts(result[d])

\* two such calls returned, with different handles
C8_Witness ==
    \E c, d \in Calls :
        /\ c # d /\ pc[c] = "done" /\ pc[d] = "done"
        /\ args[c] = args[d]
        /\ result[c] # result[d]

Inputs(a) ==
    CASE a.tool = "create" -> {a.counts_csv, a.location_csv}
      [] a.tool = "vc" -> {a.spark_object_rds}
      [] a.tool = "test" -> {a.fitted_spark_object_rds}
      [] OTHER -> {}

\* C9: a call neither writes nor deletes the handle or tables it was given; the
\* handle it returns is the --output path (the companion .rds for spark_test),
\* which it does not delete; the only file it unlinks is its auxiliary table.
C9_HandlesUntouched ==
    \A c \in Calls :
        LET changed == {trace[c][i].path :
                          i \in StepsOf(c, "alloc") \cup StepsOf(c, "engine_write")
                                \cup StepsOf(c, "unlink")}
            unlinked == {trace[c][i].path : i \in StepsOf(c, "unlink")}
        IN  /\ Inputs(args[c]) \cap changed = {}
            /\ unlinked \subseteq {Aux(c)}
            /\ pc[c] = "done" =>
                  /\ \E k \in HandleKeys \cap DOMAIN result[c] : result[c][k] = PathStr(Handle(c))
                  /\ args[c].tool # "test" => Handle(c) = output[c]
                  /\ Handle(c) \notin unlinked

\* the auxiliary table of the call was created, by tempfile or by the engine
AuxCreated(c) ==
    \E i \in StepsOf(c, "alloc") \cup StepsOf(c, "engine_write") : trace[c][i].path = Aux(c)

\* C10: the auxiliary table of a call is deleted exactly once, after it was read
\* and before the result is returned; the steps come in the order
\* allocate, engine exit, read, delete, return.
C10_Lifecycle ==
    \A c \in Calls :
        /\ Cardinality(StepsOf(c, "unlink")) <= 1
        /\ \A u \in StepsOf(c, "unlink") :
              /\ \E r \in StepsOf(c, "read") : r < u
              /\ \A r \in StepsOf(c, "read") \cup StepsOf(c, "exit") \cup StepsOf(c, "alloc") : r < u
              /\ \A r \in StepsOf(c, "return") : u < r
        /\ (Finished(c) /\ AuxCreated(c)) => Cardinality(StepsOf(c, "unlink")) = 1

----------------------------------------------------------------------------
(* Properties of the table study *)

Summarised == test_out # NoResult
Adjusted(i) == results_df.rows[i]["adjusted_pvalue"]
NoneMissing == \A i \in DOMAIN results_df.rows : Adjusted(i) # NaN

RECURSIVE BelowAlpha(_)
\* number of the first n rows of the table with a value strictly below 0.05
BelowAlpha(n) ==
    IF n = 0 THEN 0
    ELSE BelowAlpha(n - 1) + (IF Adjusted(n) \in 0 .. (Alpha - 1) THEN 1 ELSE 0)

\* C4: n_significant_genes is the number of rows of the whole table whose
\* adjusted_pvalue is strictly below 0.05; a row at exactly 0.05 or without a
\* value is not counted; the count is not limited to the ten preview rows.
C4_SignificantCount ==
    Summarised => test_out.n_significant_genes = BelowAlpha(Len(results_df.rows))

\* more significant genes were counted than the preview holds
C4_Witness ==
    /\ Summarised
    /\ test_out.n_significant_genes > Len(test_out.results_preview)

\* a <= b on floats
Le(a, b) == a # NaN /\ b # NaN /\ a <= b

PreviewGenes == {test_out.results_preview[k]["gene"] : k \in DOMAIN test_out.results_preview}

PreviewShape ==
    LET pv == test_out.results_preview
        n == Len(results_df.rows)
    IN  /\ Len(pv) = (IF n < PreviewRows THEN n ELSE PreviewRows)
        /\ \A k \in DOMAIN pv :
              /\ DOMAIN pv[k] = {"gene", "combined_pvalue", "adjusted_pvalue"}
              /\ \E i \in DOMAIN results_df.rows :
                    \A f \in DOMAIN pv[k] : pv[k][f] = results_df.rows[i][f]
        /\ Cardinality(PreviewGenes) = Len(pv)

PreviewOrder ==
    LET pv == test_out.results_preview
    IN  /\ \A k \in 1 .. (Len(pv) - 1) : Le(pv[k]["adjusted_pvalue"], pv[k + 1]["adjusted_pvalue"])
        /\ \A i \in DOMAIN results_df.rows :
              results_df.rows[i]["gene"] \notin PreviewGenes =>
                  \A k \in DOMAIN pv : Le(pv[k]["adjusted_pvalue"], Adjusted(i))

\* C5 as stated: min(10, n) preview rows in non-decreasing order of
\* adjusted_pvalue, three fields each, no omitted row below a preview row, and
\* n_genes_tested = n.
C5_PreviewAsStated ==
    Summarised =>
        /\ PreviewShape
        /\ PreviewOrder
        /\ test_out.n_genes_tested = Len(results_df.rows)

\* C5 amended: the same for tables in which no adjusted_pvalue is missing;
\* n_genes_tested = n for every table.
C5_Preview ==
    Summarised =>
        /\ NoneMissing => (PreviewShape /\ PreviewOrder)
        /\ test_out.n_genes_tested = Len(results_df.rows)

\* a table of more than ten complete rows, not sorted, was summarised
C5_Witness ==
    /\ Summarised
    /\ NoneMissing
    /\ Len(results_df.rows) > PreviewRows
    /\ Adjusted(1) = Alpha
    /\ Adjusted(Len(results_df.rows)) = Alpha - 1

----------------------------------------------------------------------------
(* Properties of the command-line study *)

Built == vc_cmd # <<>>
FlagAt(flag) == {i \in DOMAIN vc_cmd : vc_cmd[i] = flag}

\* the strings of the numbers and booleans used
Decimal(n) ==
    CASE n = 1 -> "1" [] n = 8 -> "8" [] n = 16 -> "16"
      [] n = 42 -> "42" [] n = 7 -> "7" [] n = 0 - 3 -> "-3"

\* C6: the argv of spark_vc has "--covariates <path>" exactly when a covariates
\* path was given, with that path; without one there is neither the flag nor an
\* empty value; the other arguments do not depend on it.
C6_Covariates ==
    Built =>
        LET cov == vc_in.covariates_csv
            given == cov # None /\ cov # Some("")
        IN  /\ cov = None => FlagAt("--covariates") = {}
            /\ given => \E i \in DOMAIN vc_cmd :
                            /\ FlagAt("--covariates") = {i}
                            /\ i + 1 \in DOMAIN vc_cmd
                            /\ vc_cmd[i + 1] = cov[1]
            /\ FlagAt("") = {}
            /\ Len(vc_cmd) = 12 + 2 * Cardinality(FlagAt("--covariates"))
            /\ SubSeq(vc_cmd, 1, 12) =
                  << "Rscript", "r_scripts/02_spark_example/spark_vc.R",
                     "--spark_object", "/data/spark.rds",
                     "--num_core", Decimal(vc_in.num_core),
                     "--verbose", IF vc_in.verbose THEN "TRUE" ELSE "FALSE",
                     "--seed", Decimal(vc_in.seed),
                     "--output", vc_in.output_rds[1] \o vc_in.output_rds[2] \o vc_in.output_rds[3] >>

\* the argv was built for the path of an empty covariates file
C6_Witness ==
    /\ Built
    /\ vc_in.covariates_csv = Some("/data/empty.csv")
    /\ FlagAt("--covariates") # {}

====
